---- MODULE Spec2Model ----
(***************************************************************************)
(* Model of src/location_finding_polygon.py: the training driver DAD.fit   *)
(* and the generative rollout HiddenObjects.model.                         *)
(*                                                                         *)
(* Real-valued tensors are modelled in fixed point: raw (untransformed)    *)
(* designs and design bounds in whole units, transformed designs and       *)
(* latents in 1/1000 units, squared distances and max_signal in 1/10^6     *)
(* units.  A loss value is an opaque token naming the call that produced   *)
(* it (the step index of oed.step, the step index of evaluate_loss, or the *)
(* single direct estimate).                                                *)
(***************************************************************************)
EXTENDS Integers, Sequences, FiniteSets, TLC

(***************************************************************************)
(* Bounds of the model.                                                    *)
(***************************************************************************)
MaxSteps == 1001
MaxFits == 2
MaxT == 2
MaxCalls == 2
RawMax == 9

(***************************************************************************)
(* Program constants.                                                      *)
(***************************************************************************)
LogEvery == 50
DecayEvery == 1000
WindowLen == 50
DefaultMaxSignal == 100

Types == {"dad", "static", "random"}
TypeChoices == Types \cup {"adaptive"}
NumStepsChoices == {0, 1, 2, LogEvery + 2, MaxSteps}
InnerChoices == {0, 1}
MaxSignalChoices == {0, DefaultMaxSignal}

P == 2
DefaultBaseSignal == 100
DefaultLowerBound == <<0, 0>>
DefaultUpperBound == <<1, 1>>
NoModel == [kind |-> "none", design_net |-> "none", base_signal |-> 0,
            max_signal |-> 0, T |-> 0, lower_bound |-> <<0, 0>>,
            upper_bound |-> <<0, 0>>]
NoLoss == [kind |-> "none", num_inner_samples |-> 0]

VARIABLES
    \* ---- DAD object fields -------------------------------------------
    design_network_type,  \* self.design_network_type
    num_steps,            \* self.num_steps
    num_inner_samples,    \* self.num_inner_samples
    max_signal,           \* self.max_signal
    T,                    \* self.T
    self_ho_model,        \* self.ho_model (set at the end of fit)
    configured_num_steps, \* the num_steps argument given to __init__
    \* ---- one execution of fit() --------------------------------------
    pc,                   \* position in fit()
    fits,                 \* number of fit() calls returned so far
    error,                \* exception that ended the current fit(), if any
    design_net,           \* local design_net
    ho_model,             \* local ho_model
    pce_loss,             \* local pce_loss
    i,                    \* loop index of the optimisation loop
    loss_history,         \* local loss_history
    opt_steps,            \* optimizer steps taken by oed.step()
    sched_steps,          \* scheduler.step() calls (learning-rate decays)
    eval_calls,           \* oed.evaluate_loss() calls
    direct_calls,         \* pce_loss.differentiable_loss() calls
    mlflow_calls,         \* calls made on the experiment tracker
    saved,                \* mlflow.pytorch.log_model was called
    \* ---- one HiddenObjects instance and its model() executions --------
    ho,                   \* the fields of the HiddenObjects instance
    rpc,                  \* position in model()
    calls,                \* number of model() executions started
    t,                    \* loop index of the rollout loop
    theta,                \* local theta
    xi_designs,           \* local xi_designs
    y_outcomes,           \* local y_outcomes
    theta_draws,          \* latent_sample calls in this execution
    design_calls,         \* histories given to design_net.lazy, in order
    fm_calls              \* (xi, theta) given to forward_map, in order

objvars == <<design_network_type, num_steps, num_inner_samples, max_signal,
             T, self_ho_model, configured_num_steps>>
fitvars == <<pc, fits, error, design_net, ho_model, pce_loss, i,
             loss_history, opt_steps, sched_steps, eval_calls, direct_calls,
             mlflow_calls, saved>>
rollvars == <<ho, rpc, calls, t, theta, xi_designs, y_outcomes, theta_draws,
              design_calls, fm_calls>>
vars == <<objvars, fitvars, rollvars>>

(***************************************************************************)
(* Python list slicing lst[start:stop] with negative indices, step 1.      *)
(***************************************************************************)
Max(a, b) == IF a >= b THEN a ELSE b
Min(a, b) == IF a <= b THEN a ELSE b
PyIndex(k, n) == IF k < 0 THEN Max(k + n, 0) ELSE Min(k, n)
PySlice(lst, start, stop) ==
    LET n  == Len(lst)
        lo == PyIndex(start, n)
        hi == PyIndex(stop, n)
    IN  IF hi <= lo THEN <<>> ELSE [j \in 1..(hi - lo) |-> lst[lo + j]]

(***************************************************************************)
(* Values handed to the tracker and stored in loss_history.  Every value   *)
(* has the same shape: kind, an integer, and the values it was built from. *)
(***************************************************************************)
V(kind, n, of) == [kind |-> kind, n |-> n, of |-> of]
StepLoss(k) == V("step_loss", k, <<>>)
EvalLoss(k) == V("eval_loss", k, <<>>)
DirectLoss == V("direct_loss", 0, <<>>)
IntVal(n) == V("int", n, <<>>)
StrVal(s) == V(s, 0, <<>>)
Cfg == V("cfg", 0, <<>>)

(***************************************************************************)
(* np.mean: nan on an empty list, else the mean of the listed values.      *)
(***************************************************************************)
NpMean(w) == IF w = <<>> THEN V("nan", 0, <<>>) ELSE V("mean", Len(w), w)

SetExperiment == [call |-> "set_experiment", name |-> "", value |-> Cfg]
LogParam(name, value) == [call |-> "log_param", name |-> name, value |-> value]
LogMetric(name, value) == [call |-> "log_metric", name |-> name, value |-> value]

(***************************************************************************)
(* DAD.fit, lines 330-342: the design network built for a type, and the    *)
(* value self.num_steps holds after the dispatch.                          *)
(***************************************************************************)
DispatchDesignNetLenient(type) ==
    IF type = "static" THEN "BatchDesignBaseline"
    ELSE IF type = "random" THEN "RandomDesignBaseline"
    ELSE "SetEquivariantDesignNetwork"

DispatchDesignNet(type) ==
    IF type = "static" THEN "BatchDesignBaseline"
    ELSE IF type = "random" THEN "RandomDesignBaseline"
    ELSE IF type = "dad" THEN "SetEquivariantDesignNetwork"
    ELSE "ValueError"

NumStepsAfterDispatch(type, n) == IF type = "random" THEN 0 ELSE n

(***************************************************************************)
(* DAD.fit, lines 431 and 436: the steps at which the loss is re-evaluated *)
(* and logged, and the steps at which scheduler.step() is called.          *)
(***************************************************************************)
ShouldLog(k) == k % LogEvery = 0

ShouldDecayAtIntervalEnd(k) == (k + 1) % DecayEvery = 0

ShouldDecay(k) == k % DecayEvery = 0

(***************************************************************************)
(* DAD.fit, lines 448 and 451: the two windows of loss_history averaged.   *)
(***************************************************************************)
LastWindow(h) == PySlice(h, -(WindowLen + 1), -1)
FirstWindow(h) == PySlice(h, 0, WindowLen)

(***************************************************************************)
(* DAD.fit, lines 440-452: the summary metrics logged after the loop.      *)
(***************************************************************************)
SummaryMetricsRatioAlways(h) ==
    << LogMetric("loss_diff50",
                 V("ratio_minus_1", 0, <<NpMean(LastWindow(h)), NpMean(FirstWindow(h))>>)),
       LogMetric("loss_av50", NpMean(LastWindow(h))) >>

SummaryMetrics(h) ==
    IF Len(h) = 0
    THEN << LogMetric("loss", DirectLoss),
            LogMetric("loss_diff50", IntVal(0)),
            LogMetric("loss_av50", DirectLoss) >>
    ELSE << LogMetric("loss_diff50",
                      V("ratio_minus_1", 0, <<NpMean(LastWindow(h)), NpMean(FirstWindow(h))>>)),
            LogMetric("loss_av50", NpMean(LastWindow(h))) >>

(***************************************************************************)
(* contrastive.mi.PriorContrastiveEstimation.__init__ (not in              *)
(* location_finding_polygon.py): per section 4.5 of the specification a    *)
(* contrastive estimator with zero inner samples is rejected.              *)
(***************************************************************************)
PCERejectsNever(L) == FALSE

PCERejects(L) == L = 0

(***************************************************************************)
(* DAD.fit, lines 345-372: the tracker calls made before the model is      *)
(* built.                                                                  *)
(***************************************************************************)
ParamCalls ==
    << SetExperiment,
       LogParam("seed", Cfg),
       LogParam("base_signal", Cfg),
       LogParam("max_signal", IntVal(max_signal)),
       LogParam("noise_scale", Cfg),
       LogParam("num_experiments", IntVal(T)),
       LogParam("num_sources", Cfg),
       LogParam("physical_dim", Cfg),
       LogParam("design_network_type", StrVal(design_network_type)) >>
    \o (IF design_network_type = "dad"
        THEN << LogParam("hidden_dim", Cfg), LogParam("encoding_dim", Cfg) >>
        ELSE << >>)
    \o << LogParam("num_inner_samples", IntVal(num_inner_samples)),
          LogParam("num_outer_samples", Cfg),
          LogParam("num_steps", IntVal(num_steps)),
          LogParam("lr", Cfg),
          LogParam("gamma", Cfg),
          LogParam("adam_beta1", Cfg),
          LogParam("adam_beta2", Cfg),
          LogParam("adam_weight_decay", Cfg) >>

(***************************************************************************)
(* The state of a DAD object after __init__ (lines 293-316), before any    *)
(* fit() call.                                                             *)
(***************************************************************************)
FitLocalsFresh ==
    /\ error = "none"
    /\ design_net = "none"
    /\ ho_model = NoModel
    /\ pce_loss = NoLoss
    /\ i = 0
    /\ loss_history = << >>
    /\ opt_steps = 0
    /\ sched_steps = 0
    /\ eval_calls = 0
    /\ direct_calls = 0
    /\ mlflow_calls = << >>
    /\ saved = FALSE

FitLocalsReset ==
    /\ ho_model' = NoModel
    /\ pce_loss' = NoLoss
    /\ i' = 0
    /\ loss_history' = << >>
    /\ opt_steps' = 0
    /\ sched_steps' = 0
    /\ eval_calls' = 0
    /\ direct_calls' = 0
    /\ mlflow_calls' = << >>
    /\ saved' = FALSE

InitDAD ==
    /\ design_network_type \in TypeChoices
    /\ num_steps \in NumStepsChoices
    /\ configured_num_steps = num_steps
    /\ num_inner_samples \in InnerChoices
    /\ max_signal \in MaxSignalChoices
    /\ T \in 1..MaxT
    /\ self_ho_model = NoModel
    /\ pc = "idle"
    /\ fits = 0
    /\ FitLocalsFresh

(***************************************************************************)
(* The caller reassigns the public attribute design_network_type between   *)
(* two fit() calls (the field of line 310).                                *)
(***************************************************************************)
SetType ==
    /\ pc \in {"idle", "raised"}
    /\ fits < MaxFits
    /\ \E type \in TypeChoices :
          /\ type # design_network_type
          /\ design_network_type' = type
    /\ UNCHANGED <<num_steps, num_inner_samples, max_signal, T, self_ho_model,
                   configured_num_steps>>
    /\ UNCHANGED fitvars
    /\ UNCHANGED rollvars

(***************************************************************************)
(* fit(), lines 319-342: a new call starts with fresh locals, builds the   *)
(* design network for the type or raises ValueError.                       *)
(***************************************************************************)
FitSetup ==
    /\ pc \in {"idle", "raised"}
    /\ fits < MaxFits
    /\ FitLocalsReset
    /\ IF DispatchDesignNet(design_network_type) = "ValueError"
       THEN /\ pc' = "raised"
            /\ error' = "ValueError"
            /\ design_net' = "none"
            /\ fits' = fits + 1
            /\ UNCHANGED num_steps
       ELSE /\ pc' = "setup"
            /\ error' = "none"
            /\ design_net' = DispatchDesignNet(design_network_type)
            /\ num_steps' = NumStepsAfterDispatch(design_network_type, num_steps)
            /\ UNCHANGED fits
    /\ UNCHANGED <<design_network_type, num_inner_samples, max_signal, T,
                   self_ho_model, configured_num_steps>>
    /\ UNCHANGED rollvars

(***************************************************************************)
(* fit(), lines 345-372: set_experiment and the log_param calls.           *)
(***************************************************************************)
FitLogParams ==
    /\ pc = "setup"
    /\ mlflow_calls' = mlflow_calls \o ParamCalls
    /\ pc' = "logged"
    /\ UNCHANGED <<fits, error, design_net, ho_model, pce_loss, i, loss_history,
                   opt_steps, sched_steps, eval_calls, direct_calls, saved>>
    /\ UNCHANGED objvars
    /\ UNCHANGED rollvars

(***************************************************************************)
(* HiddenObjects.__init__, lines 78-95, as called by fit() at lines        *)
(* 388-401: the fields are stored as given, max_signal included.           *)
(***************************************************************************)
NewHiddenObjects(net, ms, rounds, lb, ub) ==
    [kind |-> "HiddenObjects", design_net |-> net, base_signal |-> DefaultBaseSignal,
     max_signal |-> ms, T |-> rounds, lower_bound |-> lb, upper_bound |-> ub]

(***************************************************************************)
(* fit(), lines 377-401: the prior and the forward model are built.        *)
(***************************************************************************)
FitBuildModel ==
    /\ pc = "logged"
    /\ ho_model' = NewHiddenObjects(design_net, max_signal, T,
                                    DefaultLowerBound, DefaultUpperBound)
    /\ pc' = "built"
    /\ UNCHANGED <<fits, error, design_net, pce_loss, i, loss_history,
                   opt_steps, sched_steps, eval_calls, direct_calls,
                   mlflow_calls, saved>>
    /\ UNCHANGED objvars
    /\ UNCHANGED rollvars

(***************************************************************************)
(* fit(), lines 404-425: scheduler, estimator and OED are built and the    *)
(* loss history starts empty.                                              *)
(***************************************************************************)
FitBuildLoss ==
    /\ pc = "built"
    /\ IF PCERejects(num_inner_samples)
       THEN /\ pc' = "raised"
            /\ error' = "ZeroInnerSamples"
            /\ fits' = fits + 1
            /\ UNCHANGED pce_loss
       ELSE /\ pc' = "loop"
            /\ pce_loss' = [kind |-> "PriorContrastiveEstimation",
                            num_inner_samples |-> num_inner_samples]
            /\ UNCHANGED <<error, fits>>
    /\ i' = 0
    /\ loss_history' = << >>
    /\ UNCHANGED <<design_net, ho_model, opt_steps, sched_steps, eval_calls,
                   direct_calls, mlflow_calls, saved>>
    /\ UNCHANGED objvars
    /\ UNCHANGED rollvars

(***************************************************************************)
(* fit(), lines 426-437: one iteration of the optimisation loop.           *)
(***************************************************************************)
FitStep ==
    /\ pc = "loop"
    /\ i < num_steps
    /\ opt_steps' = opt_steps + 1
    /\ loss_history' = Append(loss_history, StepLoss(i))
    /\ IF ShouldLog(i)
       THEN /\ eval_calls' = eval_calls + 1
            /\ mlflow_calls' = Append(mlflow_calls, LogMetric("loss", EvalLoss(i)))
       ELSE UNCHANGED <<eval_calls, mlflow_calls>>
    /\ IF ShouldDecay(i)
       THEN sched_steps' = sched_steps + 1
       ELSE UNCHANGED sched_steps
    /\ i' = i + 1
    /\ UNCHANGED <<pc, fits, error, design_net, ho_model, pce_loss,
                   direct_calls, saved>>
    /\ UNCHANGED objvars
    /\ UNCHANGED rollvars

(***************************************************************************)
(* fit(), lines 439-452: the loop is over; the summary metrics are logged. *)
(***************************************************************************)
FitSummary ==
    /\ pc = "loop"
    /\ i >= num_steps
    /\ direct_calls' = IF Len(loss_history) = 0 THEN direct_calls + 1 ELSE direct_calls
    /\ mlflow_calls' = mlflow_calls \o SummaryMetrics(loss_history)
    /\ pc' = "summarised"
    /\ UNCHANGED <<fits, error, design_net, ho_model, pce_loss, i, loss_history,
                   opt_steps, sched_steps, eval_calls, saved>>
    /\ UNCHANGED objvars
    /\ UNCHANGED rollvars

(***************************************************************************)
(* fit(), lines 454-471: evaluation traces, the model is saved, the run is *)
(* ended and the model is stored on the object; fit() returns.             *)
(***************************************************************************)
FitFinish ==
    /\ pc = "summarised"
    /\ saved' = TRUE
    /\ self_ho_model' = ho_model
    /\ fits' = fits + 1
    /\ pc' = "idle"
    /\ UNCHANGED <<error, design_net, ho_model, pce_loss, i, loss_history,
                   opt_steps, sched_steps, eval_calls, direct_calls, mlflow_calls>>
    /\ UNCHANGED <<design_network_type, num_steps, num_inner_samples, max_signal,
                   T, configured_num_steps>>
    /\ UNCHANGED rollvars

(***************************************************************************)
(* nn.Sigmoid in 1/1000 units, rounded to nearest: the tabulated values    *)
(* of 1/(1+exp(-x)) for x = 0..7; it saturates at 0 and 1000 beyond.       *)
(***************************************************************************)
SigmoidTable == <<500, 731, 881, 953, 982, 993, 998, 999>>
Sigmoid(x) ==
    IF x >= Len(SigmoidTable) THEN 1000
    ELSE IF x <= -Len(SigmoidTable) THEN 0
    ELSE IF x >= 0 THEN SigmoidTable[x + 1]
    ELSE 1000 - SigmoidTable[(-x) + 1]

(***************************************************************************)
(* HiddenObjects.transform_designs, lines 120-123.  The raw design and     *)
(* the bounds are in whole units, the result in 1/1000 units.              *)
(***************************************************************************)
transform_designs_unsquashed(xi_untransformed, lower_bound, upper_bound) ==
    [d \in 1..P |-> lower_bound[d] * 1000
                    + (xi_untransformed[d] * 1000) * (upper_bound[d] - lower_bound[d])]

transform_designs(xi_untransformed, lower_bound, upper_bound) ==
    [d \in 1..P |-> lower_bound[d] * 1000
                    + Sigmoid(xi_untransformed[d]) * (upper_bound[d] - lower_bound[d])]

(***************************************************************************)
(* HiddenObjects.forward_map, lines 97-118, for one probe (n = 1).         *)
(* Squared distances and max_signal are in 1/10^6 units, the summed signal *)
(* in 1/1000 units.  pow(-1) of zero is inf; log of inf is inf, log of a   *)
(* non-positive number is -inf or nan.  The finite logarithm is the coarse *)
(* fixed-point value ln(2) * floor(log2(sum)) - ln(1000).                  *)
(***************************************************************************)
RECURSIVE FloorLog2(_)
FloorLog2(x) == IF x <= 1 THEN 0 ELSE 1 + FloorLog2(x \div 2)

RECURSIVE SumSeq(_)
SumSeq(s) == IF s = << >> THEN 0 ELSE Head(s) + SumSeq(Tail(s))

sq_two_norm(xi, source) == SumSeq([d \in 1..P |-> (xi[d] - source[d]) * (xi[d] - source[d])])

forward_map(xi, th, ms, base) ==
    LET denom == [k \in 1..Len(th) |-> ms + sq_two_norm(xi, th[k])]
        isinf == \E k \in 1..Len(th) : denom[k] = 0
        inv   == [k \in 1..Len(th) |->
                     IF denom[k] = 0 THEN 0 ELSE 1000000000 \div denom[k]]
        total == base + SumSeq(inv)
    IN  IF isinf THEN [kind |-> "inf", val |-> 0]
        ELSE IF total < 0 THEN [kind |-> "nan", val |-> 0]
        ELSE IF total = 0 THEN [kind |-> "-inf", val |-> 0]
        ELSE [kind |-> "finite", val |-> 693 * FloorLog2(total) - 6908]

(***************************************************************************)
(* HiddenObjects.model, line 137: the loop condition of range(self.T).     *)
(***************************************************************************)
LoopContinuesInclusive(k, rounds) == k <= rounds

LoopContinues(k, rounds) == k < rounds

(***************************************************************************)
(* HiddenObjects.model, line 164: the design appended to xi_designs.       *)
(***************************************************************************)
StoredDesignTransformed(xi_untransformed, xi) == xi

StoredDesign(xi_untransformed, xi) == xi_untransformed

(***************************************************************************)
(* HiddenObjects.model, line 142: zip(xi_designs, y_outcomes).             *)
(***************************************************************************)
Zip(a, b) == [k \in 1..Min(Len(a), Len(b)) |-> <<a[k], b[k]>>]

(***************************************************************************)
(* Inputs of a rollout: the raw designs a design network may return, the   *)
(* latents the prior may yield (K = 1 or 2 sources, 1/1000 units), the     *)
(* sign of the observation noise and the design bounds.                    *)
(***************************************************************************)
RawDesigns == { <<0, 0>>, <<-RawMax, RawMax>>, <<RawMax, -1>>, <<1, 2>>, <<-3, 7>> }
RawGrid == [1..P -> (-RawMax)..RawMax]
Thetas == { << <<500, 500>> >>, << <<1000, -1000>>, <<0, 2000>> >> }
Noise == {-1, 1}
BoundPairs == { <<DefaultLowerBound, DefaultUpperBound>>,
                << <<-2, 0>>, <<3, 0>> >>,
                << <<-1, -1>>, <<1, 2>> >>,
                << <<1, 1>>, <<0, 0>> >> }

(***************************************************************************)
(* A HiddenObjects instance after __init__ (lines 78-95), no model() call  *)
(* made yet.                                                               *)
(***************************************************************************)
RollLocalsFresh ==
    /\ rpc = "idle"
    /\ calls = 0
    /\ t = 0
    /\ theta = << >>
    /\ xi_designs = << >>
    /\ y_outcomes = << >>
    /\ theta_draws = << >>
    /\ design_calls = << >>
    /\ fm_calls = << >>

InitHiddenObjects ==
    /\ \E bp \in BoundPairs, ms \in MaxSignalChoices, rounds \in 1..MaxT :
          ho = NewHiddenObjects("design_net", ms, rounds, bp[1], bp[2])
    /\ RollLocalsFresh

(***************************************************************************)
(* model(), lines 126-134: the latent is sampled and the lists start empty. *)
(***************************************************************************)
ModelBegin ==
    /\ rpc \in {"idle", "returned"}
    /\ calls < MaxCalls
    /\ calls' = calls + 1
    /\ \E th \in Thetas :
          /\ theta' = th
          /\ theta_draws' = << th >>
    /\ y_outcomes' = << >>
    /\ xi_designs' = << >>
    /\ design_calls' = << >>
    /\ fm_calls' = << >>
    /\ t' = 0
    /\ rpc' = "loop"
    /\ UNCHANGED ho
    /\ UNCHANGED objvars
    /\ UNCHANGED fitvars

(***************************************************************************)
(* model(), lines 137-164: one round of the experiment.                    *)
(***************************************************************************)
Round ==
    /\ rpc = "loop"
    /\ LoopContinues(t, ho.T)
    /\ \E xi_untransformed \in RawDesigns, eps \in Noise :
          LET xi   == transform_designs(xi_untransformed, ho.lower_bound, ho.upper_bound)
              mean == forward_map(xi, theta, ho.max_signal, ho.base_signal)
              y    == [site |-> t + 1, mean |-> mean, noise |-> eps]
          IN  /\ design_calls' = Append(design_calls,
                                        [site |-> t + 1,
                                         history |-> Zip(xi_designs, y_outcomes),
                                         out |-> xi_untransformed])
              /\ fm_calls' = Append(fm_calls, [xi |-> xi, theta |-> theta])
              /\ y_outcomes' = Append(y_outcomes, y)
              /\ xi_designs' = Append(xi_designs, StoredDesign(xi_untransformed, xi))
    /\ t' = t + 1
    /\ UNCHANGED <<ho, rpc, calls, theta, theta_draws>>
    /\ UNCHANGED objvars
    /\ UNCHANGED fitvars

(***************************************************************************)
(* model(), line 166: the loop is over and the two lists are returned.     *)
(***************************************************************************)
ModelReturn ==
    /\ rpc = "loop"
    /\ ~LoopContinues(t, ho.T)
    /\ rpc' = "returned"
    /\ UNCHANGED <<ho, calls, t, theta, xi_designs, y_outcomes, theta_draws,
                   design_calls, fm_calls>>
    /\ UNCHANGED objvars
    /\ UNCHANGED fitvars

(***************************************************************************)
(* Specifications: the training driver, and the rollout.                   *)
(***************************************************************************)
Init ==
    /\ InitDAD
    /\ ho = NoModel
    /\ RollLocalsFresh

Next ==
    \/ SetType
    \/ FitSetup
    \/ FitLogParams
    \/ FitBuildModel
    \/ FitBuildLoss
    \/ FitStep
    \/ FitSummary
    \/ FitFinish

Spec == Init /\ [][Next]_vars

InitRollout ==
    /\ InitHiddenObjects
    /\ design_network_type = "dad"
    /\ num_steps = 0
    /\ configured_num_steps = 0
    /\ num_inner_samples = 1
    /\ max_signal = ho.max_signal
    /\ T = ho.T
    /\ self_ho_model = NoModel
    /\ pc = "idle"
    /\ fits = 0
    /\ FitLocalsFresh

NextRollout ==
    \/ ModelBegin
    \/ Round
    \/ ModelReturn

SpecRollout == InitRollout /\ [][NextRollout]_vars

(***************************************************************************)
(* Auxiliary definitions of the properties.                                *)
(***************************************************************************)
InRun == pc \in {"setup", "logged", "built", "loop", "summarised"}
IsMetric(c) == c.call = "log_metric"
MetricCalls == SelectSeq(mlflow_calls, IsMetric)
CeilDiv(a, b) == (a + b - 1) \div b
BoundsOrdered == \A d \in 1..P : ho.lower_bound[d] <= ho.upper_bound[d]
InBounds(xi) ==
    \A d \in 1..P : /\ ho.lower_bound[d] * 1000 <= xi[d]
                    /\ xi[d] <= ho.upper_bound[d] * 1000

(***************************************************************************)
(* C1: a fit() whose design_network_type is not "dad", "static" or         *)
(* "random" ends in ValueError with no optimizer step, no loss estimate,   *)
(* no tracker call, an empty loss history and no model built or saved; no  *)
(* fit() proceeds past the dispatch with such a type.                      *)
(***************************************************************************)
C1_UnknownTypeFailsFast ==
    /\ InRun => design_network_type \in Types
    /\ (pc = "raised" /\ error = "ValueError") =>
          /\ opt_steps = 0
          /\ sched_steps = 0
          /\ eval_calls = 0
          /\ direct_calls = 0
          /\ mlflow_calls = << >>
          /\ loss_history = << >>
          /\ design_net = "none"
          /\ ho_model.kind = "none"
          /\ ~saved

C1_Witness ==
    /\ pc = "raised"
    /\ error = "ValueError"
    /\ design_network_type = "adaptive"
    /\ fits = 2
    /\ self_ho_model.kind = "HiddenObjects"

(***************************************************************************)
(* C2: no HiddenObjects instance is ever built with max_signal <= 0, and   *)
(* no training step runs with such a value.                                *)
(***************************************************************************)
C2_MaxSignalRejected ==
    /\ ho_model.kind = "HiddenObjects" => ho_model.max_signal > 0
    /\ opt_steps > 0 => ho_model.max_signal > 0

C4_ZeroSteps ==
    /\ (InRun /\ design_network_type = "random") => num_steps = 0
    /\ (pc = "loop" /\ num_steps = 0) =>
          /\ opt_steps = 0
          /\ sched_steps = 0
          /\ direct_calls = 0
    /\ (pc = "summarised" /\ num_steps = 0) =>
          /\ opt_steps = 0
          /\ sched_steps = 0
          /\ eval_calls = 0
          /\ direct_calls = 1
          /\ MetricCalls = << LogMetric("loss", DirectLoss),
                              LogMetric("loss_diff50", IntVal(0)),
                              LogMetric("loss_av50", DirectLoss) >>

C4_Witness ==
    /\ pc = "summarised"
    /\ design_network_type = "random"
    /\ configured_num_steps > 0
    /\ num_steps = 0
    /\ direct_calls = 1

(***************************************************************************)
(* C7 as claimed: after k optimizer steps the number of learning-rate      *)
(* decays is floor(k / 1000).                                              *)
(***************************************************************************)
C7_DecaysFloor ==
    pc \in {"loop", "summarised"} => sched_steps = opt_steps \div DecayEvery

(***************************************************************************)
(* C7 as amended: after k completed loop iterations the number of          *)
(* learning-rate decays is ceil(k / 1000): the decay is applied in         *)
(* iterations 0, 1000, 2000, ..., so the first step already decays.        *)
(***************************************************************************)
C7_DecaysCeil ==
    pc \in {"loop", "summarised"} =>
        /\ opt_steps = i
        /\ sched_steps = CeilDiv(opt_steps, DecayEvery)
        /\ (opt_steps >= 1 /\ opt_steps < DecayEvery) => sched_steps = 1

C7_Witness ==
    /\ pc = "summarised"
    /\ opt_steps > DecayEvery
    /\ sched_steps = 2

(***************************************************************************)
(* C8: for every run with num_steps >= 1 the window averaged as the last   *)
(* ~50 losses is non-empty and ends with the final recorded loss, the      *)
(* window averaged as the first 50 is non-empty, and no logged statistic   *)
(* is the mean of an empty list.                                           *)
(***************************************************************************)
C8_WindowsWellDefined ==
    (pc = "summarised" /\ Len(loss_history) >= 1) =>
        /\ LastWindow(loss_history) # << >>
        /\ FirstWindow(loss_history) # << >>
        /\ LastWindow(loss_history)[Len(LastWindow(loss_history))]
              = loss_history[Len(loss_history)]
        /\ \A k \in 1..Len(MetricCalls) : MetricCalls[k].value.kind # "nan"

(***************************************************************************)
(* C10: every fit() whose type is "dad" or "static" performs exactly the   *)
(* num_steps configured at construction, whatever fit() calls came before. *)
(***************************************************************************)
C10_NumStepsPreserved ==
    (pc = "summarised" /\ design_network_type \in {"dad", "static"}) =>
        opt_steps = configured_num_steps

(***************************************************************************)
(* C5: one execution of model() samples theta exactly once and passes      *)
(* through rounds 1..T in order: round k calls the policy on a history of  *)
(* k-1 pairs, which are the first k-1 pairs of the final lists; it         *)
(* returns with exactly T designs and T observations, every observation    *)
(* drawn against the one sampled theta.                                    *)
(***************************************************************************)
C5_RolloutOrder ==
    rpc \in {"loop", "returned"} =>
        /\ Len(theta_draws) = 1
        /\ theta = theta_draws[1]
        /\ t <= ho.T
        /\ rpc = "returned" => t = ho.T
        /\ Len(xi_designs) = t
        /\ Len(y_outcomes) = t
        /\ Len(design_calls) = t
        /\ Len(fm_calls) = t
        /\ \A k \in 1..t :
              /\ design_calls[k].site = k
              /\ y_outcomes[k].site = k
              /\ Len(design_calls[k].history) = k - 1
              /\ design_calls[k].history
                    = Zip(SubSeq(xi_designs, 1, k - 1), SubSeq(y_outcomes, 1, k - 1))
              /\ fm_calls[k].theta = theta_draws[1]

C5_Witness ==
    /\ rpc = "returned"
    /\ calls = 2
    /\ ho.T = MaxT
    /\ Len(xi_designs) = MaxT
    /\ Len(design_calls[MaxT].history) = MaxT - 1

(***************************************************************************)
(* C6: with lower_bound <= upper_bound elementwise, transform_designs      *)
(* maps every raw design into [lower_bound, upper_bound] componentwise,    *)
(* and every design given to the forward model lies inside the bounds.     *)
(***************************************************************************)
C6_TransformBounded ==
    BoundsOrdered =>
        /\ rpc = "idle" =>
              \A r \in RawGrid :
                  InBounds(transform_designs(r, ho.lower_bound, ho.upper_bound))
        /\ \A k \in 1..Len(fm_calls) : InBounds(fm_calls[k].xi)

C6_Witness ==
    /\ rpc = "returned"
    /\ BoundsOrdered
    /\ ho.lower_bound[1] < ho.upper_bound[1]
    /\ \E k \in 1..Len(fm_calls) :
          /\ fm_calls[k].xi[1] = ho.upper_bound[1] * 1000
          /\ fm_calls[k].xi[2] > ho.lower_bound[2] * 1000
          /\ fm_calls[k].xi[2] < ho.upper_bound[2] * 1000

(***************************************************************************)
(* C9: in every round the forward model is given the transformed design,   *)
(* while the history holds the raw output of the policy for that round,    *)
(* paired with the observation of that round, and that pair is what the    *)
(* policy sees in all later rounds.                                        *)
(***************************************************************************)
C9_RawInHistory ==
    \A k \in 1..Len(design_calls) :
        /\ fm_calls[k].xi
              = transform_designs(design_calls[k].out, ho.lower_bound, ho.upper_bound)
        /\ xi_designs[k] = design_calls[k].out
        /\ y_outcomes[k].mean
              = forward_map(fm_calls[k].xi, theta, ho.max_signal, ho.base_signal)
        /\ \A j \in (k + 1)..Len(design_calls) :
              design_calls[j].history[k] = << design_calls[k].out, y_outcomes[k] >>

C9_Witness ==
    /\ rpc = "returned"
    /\ Len(design_calls) >= 2
    /\ fm_calls[1].xi # xi_designs[1]
    /\ design_calls[2].history[1][1] = design_calls[1].out
    /\ design_calls[2].history[1][1] # fm_calls[1].xi

====
